---- MODULE Spec2Model ----
(***************************************************************************)
(* A model of the library data-access layer: the schema of models.py (the  *)
(* validators, the store's constraints, the derived loan status), the crud *)
(* operations of crud.py behind exception_decorator, and the unit of work  *)
(* of database.get_db.  The store is a PostgreSQL database: every unit of  *)
(* work reads the committed rows plus its own uncommitted writes.          *)
(***************************************************************************)
EXTENDS Integers, Sequences, FiniteSets, TLC

(* ---------------------------------------------------------------- bounds *)
\* ids each table's sequence hands out before a specification stops creating rows
MaxAuthorId == 1
MaxBookId == 1
MaxReaderId == 1
MaxLoanId == 1
\* the same, for the specifications of a single table
MaxRows == 2
\* the last day either clock reaches (day 0 is the first)
MaxDay == 1

\* models.py:159  timedelta(days=14)
LoanDays == 14
\* models.py:38   String(13)
IsbnColumnLen == 13
\* models.py:66   published_year >= 1000
MinYear == 1000

(* ----------------------------------------------------------- basic values *)
\* Optional values: Python's None / SQL NULL is the empty set, a value x is {x}.
None == {}
Some(x) == {x}
IsNone(o) == o = {}
The(o) == CHOOSE x \in o : TRUE

Tables == {"author", "book", "reader", "loan"}
Units == {"u1", "u2"}

NoExc == "none"
ValueError == "ValueError"
TypeError == "TypeError"
IntegrityError == "IntegrityError"
DataError == "DataError"
RuntimeError == "RuntimeError"
OperationalError == "OperationalError"
InternalError == "InternalError"
PendingRollbackError == "PendingRollbackError"

\* str.isdigit on one character
Digits == {"0", "1", "2", "3", "4", "5", "6", "7", "8", "9"}
isdigit(c) == c \in Digits

\* str.startswith
startswith(value, prefix) ==
    /\ Len(value) >= Len(prefix)
    /\ SubSeq(value, 1, Len(prefix)) = prefix

\* the `in` operator on strings: sub occurs somewhere in value
contains(value, sub) ==
    \E i \in 1..(Len(value) + 1) :
        /\ i + Len(sub) - 1 <= Len(value)
        /\ SubSeq(value, i, i + Len(sub) - 1) = sub

Rep(c, n) == [i \in 1..n |-> c]

(* -------------------------------------------------------------- the clocks *)
\* Day d is a calendar day counted from 31 December: day 0 is the last day
\* of a year and day 1 the first day of the next one.
YearOf(d) == IF d <= 0 THEN 2026 ELSE 2027

(* -------------------------------------------------------------- validators *)
\* Book.check_isbn: the value when it passes, ValueError otherwise
check_isbn(value) ==
    IF Len(value) # 13 THEN [exc |-> ValueError, val |-> None]
    ELSE IF \E i \in 1..Len(value) : ~isdigit(value[i])
         THEN [exc |-> ValueError, val |-> None]
         ELSE [exc |-> NoExc, val |-> Some(value)]

MailRu == <<"@", "m", "a", "i", "l", ".", "r", "u">>
YandexRu == <<"@", "y", "a", "n", "d", "e", "x", ".", "r", "u">>
GmailCom == <<"@", "g", "m", "a", "i", "l", ".", "c", "o", "m">>
emails == {MailRu, YandexRu, GmailCom}

\* Reader.check_email
check_email(value) ==
    IF \E email \in emails : contains(value, email)
    THEN [exc |-> NoExc, val |-> Some(value)]
    ELSE [exc |-> ValueError, val |-> None]

\* Reader.check_phone; value is Optional: None, or Some of a string ("" is falsy)
check_phone_no_length(value) ==
    IF ~IsNone(value) /\ Len(The(value)) > 0
    THEN IF startswith(The(value), <<"+", "7">>) \/ startswith(The(value), <<"8">>)
         THEN [exc |-> NoExc, val |-> value]
         ELSE [exc |-> ValueError, val |-> None]
    ELSE [exc |-> NoExc, val |-> None]

check_phone(value) ==
    IF ~IsNone(value) /\ Len(The(value)) > 0
    THEN IF /\ (startswith(The(value), <<"+", "7">>) \/ startswith(The(value), <<"8">>))
            /\ (Len(The(value)) = 12 \/ Len(The(value)) = 11)
         THEN [exc |-> NoExc, val |-> value]
         ELSE [exc |-> ValueError, val |-> None]
    ELSE [exc |-> NoExc, val |-> None]

(* ------------------------------------------------------------------ state *)
VARIABLES
    store,      \* the committed rows of each table
    nextid,     \* each table's id sequence (never rolled back)
    pc,         \* where each unit of work is: idle, in_block (inside get_db), raised
    tx,         \* each session's transaction: none, active (begun by get_db),
                \* autobegun, inactive (flush failed), aborted (statement failed)
    written,    \* each unit's uncommitted row versions (inserted or updated)
    removed,    \* each unit's uncommitted deletions (ids)
    pending,    \* each session's pending objects (added, not yet flushed)
    raised,     \* the exception on its way out of each unit's block
    outcome,    \* how each unit's last get_db block ended
    last,       \* the last call: operation, unit, arguments, exception, result
    appToday,   \* the application's date.today()
    dbToday     \* the store's current_date

vars == <<store, nextid, pc, tx, written, removed, pending, raised, outcome,
          last, appToday, dbToday>>

NoRows == [t \in Tables |-> {}]
NoCall == [op |-> "none", unit |-> "none", args |-> <<>>, exc |-> NoExc,
           ret |-> None, stmts |-> 0, inner |-> NoExc]

Ids(rows) == {r.id : r \in rows}

\* The rows unit s reads in table t: the committed rows it has not deleted or
\* rewritten, plus its own row versions.
View(s, t) ==
    {r \in store[t] : r.id \notin removed[s][t] /\ r.id \notin Ids(written[s][t])}
        \cup written[s][t]

\* The rows of t a commit of unit s leaves in the store
Committed(s, t) == View(s, t)

\* Row ids of t that unit s holds a lock on
LockedBy(s, t) == Ids(written[s][t]) \cup removed[s][t]

(* ----------------------------------------------------- the store's constraints *)
\* SQL equality of two nullable values: never true when either is NULL
SqlEq(a, b) == ~IsNone(a) /\ ~IsNone(b) /\ a = b

\* Loan.__table_args__: the unique index id_return_date_idx over
\* (book_id, return_date) restricted to the rows WHERE return_date IS NULL.
\* Two index entries collide when every indexed column is SQL-equal.
id_return_date_idx(a, b) ==
    /\ IsNone(a.return_date) /\ IsNone(b.return_date)
    /\ a.book_id = b.book_id
    /\ SqlEq(a.return_date, b.return_date)

\* unique=True columns: author.name, book.isbn, reader.email; and the loan index
UniqueConflict(t, a, b) ==
    /\ a.id # b.id
    /\ CASE t = "author" -> a.name = b.name
         [] t = "book" -> a.isbn = b.isbn
         [] t = "reader" -> a.email = b.email
         [] t = "loan" -> id_return_date_idx(a, b)

\* a CheckConstraint on published_year with the lower bound only
published_year_check_no_upper(row) ==
    row.published_year >= MinYear

\* Book.__table_args__: CheckConstraint on published_year
published_year_check(row) ==
    /\ row.published_year >= MinYear
    /\ row.published_year <= YearOf(dbToday)

\* ForeignKey('author.id'), ForeignKey('book.id'), ForeignKey('reader.id')
ForeignKeysHold(s, t, row) ==
    CASE t = "book" -> row.author_id \in Ids(View(s, "author"))
      [] t = "loan" -> /\ row.book_id \in Ids(View(s, "book"))
                       /\ row.reader_id \in Ids(View(s, "reader"))
      [] OTHER -> TRUE

\* Rows of other tables that reference row id of table t
Referencing(s, t, id) ==
    CASE t = "author" -> {b \in View(s, "book") : b.author_id = id}
      [] t = "book" -> {l \in View(s, "loan") : l.book_id = id}
      [] t = "reader" -> {l \in View(s, "loan") : l.reader_id = id}
      [] OTHER -> {}

\* nullable=False on loan.due_date
NotNullHolds(t, row) ==
    IF t = "loan" THEN ~IsNone(row.due_date) ELSE TRUE

\* String(13) on book.isbn: a longer value does not fit the column
FitsColumns(t, row) ==
    IF t = "book" THEN Len(row.isbn) <= IsbnColumnLen ELSE TRUE

\* What the store answers to a row version written into table t by unit s
StoreVerdict(s, t, row) ==
    IF ~FitsColumns(t, row) THEN DataError
    ELSE IF ~NotNullHolds(t, row) THEN IntegrityError
    ELSE IF t = "book" /\ ~published_year_check(row) THEN IntegrityError
    ELSE IF \E v \in View(s, t) : UniqueConflict(t, v, row) THEN IntegrityError
    ELSE IF ~ForeignKeysHold(s, t, row) THEN IntegrityError
    ELSE NoExc

\* A write of row into t by unit s has to wait for another unit that holds an
\* uncommitted row version colliding with it on a unique index.
Waits(s, t, row) ==
    \E o \in Units \ {s} :
        \/ \E w \in written[o][t] : UniqueConflict(t, w, row)
        \/ \E c \in store[t] : UniqueConflict(t, c, row) /\ c.id \in LockedBy(o, t)

\* A delete of row id of table t by unit s has to wait for another unit that
\* holds an uncommitted row referencing it (the foreign key's row lock).
DeleteWaits(s, t, id) ==
    \E o \in Units \ {s} :
        CASE t = "author" -> \E b \in written[o]["book"] : b.author_id = id
          [] t = "book" -> \E l \in written[o]["loan"] : l.book_id = id
          [] t = "reader" -> \E l \in written[o]["loan"] : l.reader_id = id
          [] OTHER -> FALSE

\* An insert of row into t by unit s has to wait for another unit that holds
\* an uncommitted deletion of a row it references.
InsertWaits(s, t, row) ==
    \E o \in Units \ {s} :
        CASE t = "book" -> row.author_id \in removed[o]["author"]
          [] t = "loan" -> \/ row.book_id \in removed[o]["book"]
                           \/ row.reader_id \in removed[o]["reader"]
          [] OTHER -> FALSE

(* ------------------------------------------------------- effects of a call *)
\* What a call by unit s leaves behind: the exception it raises (or none), its
\* return value, the statements it sent to the store, and the unit's state.
Effect(s, exc, ret, stmts) ==
    [exc |-> exc, ret |-> ret, stmts |-> stmts, pending |-> pending[s],
     written |-> written[s], removed |-> removed[s], nextid |-> nextid,
     tx |-> tx[s]]

\* Session.is_active: false only after a flush failed inside the transaction
is_active(s) == tx[s] # "inactive"

\* isinstance(exc, cls) for the classes the wrapper's except clauses name
isinstance(exc, cls) ==
    CASE cls = "OperationalError" -> exc = OperationalError
      [] cls = "IntegrityError" -> exc = IntegrityError
      [] cls = "SQLAlchemyError" ->
            exc \in {OperationalError, IntegrityError, DataError, InternalError,
                     PendingRollbackError}
      [] cls = "Exception" -> TRUE

\* the wrapper's except clauses, in their order
ExceptClauses == <<"OperationalError", "IntegrityError", "SQLAlchemyError", "Exception">>

\* the clause that handles exc: the first one whose class exc is an instance of
except_clause(exc) ==
    CHOOSE i \in DOMAIN ExceptClauses :
        /\ isinstance(exc, ExceptClauses[i])
        /\ \A j \in 1..(i - 1) : ~isinstance(exc, ExceptClauses[j])

\* what each clause does after printing: a bare `raise` of the caught exception
reraise(clause, exc) == exc

\* The effect e of the wrapped operation with the exception it raised itself
\* (inner) beside the one that reaches the caller (exc)
Wrapped(e, exc, inner) ==
    [f \in DOMAIN e \cup {"inner"} |->
        IF f = "inner" THEN inner ELSE IF f = "exc" THEN exc ELSE e[f]]

\* A statement sent in a transaction that a failed statement has aborted is
\* refused by the store
in_transaction(s, e) ==
    IF tx[s] = "aborted" /\ e.stmts > 0
    THEN [Effect(s, InternalError, None, 1) EXCEPT !.tx = "aborted"]
    ELSE e

\* a wrapper whose IntegrityError clause returns None instead of re-raising
exception_decorator_swallows(s, e) ==
    LET r == in_transaction(s, e)
    IN IF ~is_active(s)
       THEN Wrapped(Effect(s, RuntimeError, None, 0), RuntimeError, "not run")
       ELSE IF r.exc = IntegrityError
       THEN Wrapped([r EXCEPT !.ret = None], NoExc, r.exc)
       ELSE Wrapped(r, r.exc, r.exc)

\* exception_decorator.wrapper: refuse an inactive session, otherwise run the
\* operation once and re-raise whatever it raises from the clause that catches it
exception_decorator(s, e) ==
    LET r == in_transaction(s, e)
    IN IF ~is_active(s)
       THEN Wrapped(Effect(s, RuntimeError, None, 0), RuntimeError, "not run")
       ELSE IF r.exc = NoExc THEN Wrapped(r, NoExc, NoExc)
       ELSE Wrapped(r, reraise(except_clause(r.exc), r.exc), r.exc)

\* A flush that fails rolls the session's transaction back: the unit's writes
\* and its pending objects are gone and the session is inactive.
FlushFailed(s, exc, stmts, ids) ==
    [exc |-> exc, ret |-> None, stmts |-> stmts, pending |-> pending[s],
     written |-> NoRows, removed |-> NoRows, nextid |-> ids, tx |-> "inactive"]

\* A statement run by db.execute that the store rejects: the store's
\* transaction is aborted, the session still counts as active.
ExecuteFailed(s, exc) ==
    [Effect(s, exc, None, 1) EXCEPT !.tx = "aborted"]

\* db.add(obj); db.flush(); db.refresh(obj): the INSERT takes the next id of the
\* sequence whether or not the store accepts the row.
add_flush_refresh(s, t, obj) ==
    LET row == [f \in DOMAIN obj \cup {"id"} |->
                    IF f = "id" THEN nextid[t] ELSE obj[f]]
        ids == [nextid EXCEPT ![t] = @ + 1]
        verdict == StoreVerdict(s, t, row)
    IN IF verdict # NoExc
       THEN FlushFailed(s, verdict, 1, ids)
       ELSE [exc |-> NoExc, ret |-> Some(row), stmts |-> 2,
             pending |-> pending[s],
             written |-> [written[s] EXCEPT ![t] = @ \cup {row}],
             removed |-> removed[s], nextid |-> ids, tx |-> tx[s]]

\* the UPDATE with a RETURNING that gives back the row as it was before
update_returning_old_row(s, t, id, kwargs) ==
    LET hit == {r \in View(s, t) : r.id = id}
        old == The(hit)
        new == [f \in DOMAIN old |-> IF f \in DOMAIN kwargs THEN kwargs[f] ELSE old[f]]
        verdict == StoreVerdict(s, t, new)
    IN IF hit = {} THEN Effect(s, NoExc, None, 1)
       ELSE IF verdict # NoExc THEN ExecuteFailed(s, verdict)
       ELSE [Effect(s, NoExc, Some(old), 1) EXCEPT
                !.written = [written[s] EXCEPT ![t] = {w \in @ : w.id # id} \cup {new}]]

\* update(Model).where(Model.id == id).values(kwargs).returning(Model):
\* the statement goes to the store as written; no validator runs.
update_returning(s, t, id, kwargs) ==
    LET hit == {r \in View(s, t) : r.id = id}
        old == The(hit)
        new == [f \in DOMAIN old |-> IF f \in DOMAIN kwargs THEN kwargs[f] ELSE old[f]]
        verdict == StoreVerdict(s, t, new)
    IN IF hit = {} THEN Effect(s, NoExc, None, 1)
       ELSE IF verdict # NoExc THEN ExecuteFailed(s, verdict)
       ELSE [Effect(s, NoExc, Some(new), 1) EXCEPT
                !.written = [written[s] EXCEPT ![t] = {w \in @ : w.id # id} \cup {new}]]

\* delete(Model).where(Model.id == id) reporting a removed row whatever rowcount is
delete_where_any_rowcount(s, t, id) ==
    LET hit == {r \in View(s, t) : r.id = id}
    IN IF Referencing(s, t, id) # {} THEN ExecuteFailed(s, IntegrityError)
       ELSE [Effect(s, NoExc, TRUE, 1) EXCEPT
                !.written = [written[s] EXCEPT ![t] = {w \in @ : w.id # id}],
                !.removed = [removed[s] EXCEPT ![t] =
                                IF id \in Ids(store[t]) THEN @ \cup {id} ELSE @]]

\* delete(Model).where(Model.id == id): the rows it removed, or the store's
\* refusal when another table's row still references the row
delete_where(s, t, id) ==
    LET hit == {r \in View(s, t) : r.id = id}
    IN IF hit = {} THEN Effect(s, NoExc, FALSE, 1)
       ELSE IF Referencing(s, t, id) # {} THEN ExecuteFailed(s, IntegrityError)
       ELSE [Effect(s, NoExc, TRUE, 1) EXCEPT
                !.written = [written[s] EXCEPT ![t] = {w \in @ : w.id # id}],
                !.removed = [removed[s] EXCEPT ![t] =
                                IF id \in Ids(store[t]) THEN @ \cup {id} ELSE @]]

\* The call of operation op by unit s with its effect e
Call(s, op, args, e) ==
    /\ last' = [op |-> op, unit |-> s, args |-> args, exc |-> e.exc,
                ret |-> e.ret, stmts |-> e.stmts, inner |-> e.inner]
    /\ pending' = [pending EXCEPT ![s] = e.pending]
    /\ written' = [written EXCEPT ![s] = e.written]
    /\ removed' = [removed EXCEPT ![s] = e.removed]
    /\ nextid' = e.nextid
    /\ tx' = [tx EXCEPT ![s] = IF e.tx = "none" /\ e.stmts > 0 THEN "autobegun"
                               ELSE e.tx]
    /\ pc' = [pc EXCEPT ![s] = IF e.exc = NoExc THEN "in_block" ELSE "raised"]
    /\ raised' = [raised EXCEPT ![s] = e.exc]
    /\ UNCHANGED <<store, outcome, appToday, dbToday>>

(* ------------------------------------------------------------- unit of work *)
\* get_db: async with Session() as session, session.begin(): yield session
get_db_enter(s) ==
    /\ pc[s] = "idle"
    /\ pc' = [pc EXCEPT ![s] = "in_block"]
    /\ tx' = [tx EXCEPT ![s] = "active"]
    /\ outcome' = [outcome EXCEPT ![s] = "open"]
    /\ last' = [NoCall EXCEPT !.op = "get_db_enter", !.unit = s]
    /\ UNCHANGED <<store, nextid, written, removed, pending, raised, appToday,
                   dbToday>>

\* get_db: the block ends normally and session.begin() commits.  After a
\* failure the caller caught inside the block there is nothing left to commit:
\* a transaction a failed flush rolled back makes commit() raise
\* PendingRollbackError, and the store answers the COMMIT of an aborted
\* transaction by rolling it back.
get_db_exit(s) ==
    /\ pc[s] = "in_block"
    /\ outcome[s] = "open"
    /\ store' = IF tx[s] = "active" THEN [t \in Tables |-> Committed(s, t)]
                ELSE store
    /\ written' = [written EXCEPT ![s] = NoRows]
    /\ removed' = [removed EXCEPT ![s] = NoRows]
    /\ pc' = [pc EXCEPT ![s] = "idle"]
    /\ tx' = [tx EXCEPT ![s] = "none"]
    /\ outcome' = [outcome EXCEPT ![s] = IF tx[s] = "inactive"
                                         THEN PendingRollbackError
                                         ELSE "committed"]
    /\ last' = [NoCall EXCEPT !.op = "get_db_exit", !.unit = s,
                              !.exc = IF tx[s] = "inactive"
                                      THEN PendingRollbackError ELSE NoExc]
    /\ UNCHANGED <<nextid, pending, raised, appToday, dbToday>>

\* get_db with a session.begin() that commits on an exception too
get_db_except_commits(s) ==
    /\ pc[s] = "raised"
    /\ outcome[s] = "open"
    /\ store' = [t \in Tables |-> Committed(s, t)]
    /\ written' = [written EXCEPT ![s] = NoRows]
    /\ removed' = [removed EXCEPT ![s] = NoRows]
    /\ pending' = [pending EXCEPT ![s] = {}]
    /\ pc' = [pc EXCEPT ![s] = "idle"]
    /\ tx' = [tx EXCEPT ![s] = "none"]
    /\ outcome' = [outcome EXCEPT ![s] = raised[s]]
    /\ raised' = [raised EXCEPT ![s] = NoExc]
    /\ last' = [NoCall EXCEPT !.op = "get_db_except", !.unit = s, !.exc = raised[s]]
    /\ UNCHANGED <<nextid, appToday, dbToday>>

\* get_db: an exception leaves the block; session.begin() rolls back and the
\* except clause re-raises it
get_db_except(s) ==
    /\ pc[s] = "raised"
    /\ outcome[s] = "open"
    /\ written' = [written EXCEPT ![s] = NoRows]
    /\ removed' = [removed EXCEPT ![s] = NoRows]
    /\ pending' = [pending EXCEPT ![s] = {}]
    /\ pc' = [pc EXCEPT ![s] = "idle"]
    /\ tx' = [tx EXCEPT ![s] = "none"]
    /\ outcome' = [outcome EXCEPT ![s] = raised[s]]
    /\ raised' = [raised EXCEPT ![s] = NoExc]
    /\ last' = [NoCall EXCEPT !.op = "get_db_except", !.unit = s, !.exc = raised[s]]
    /\ UNCHANGED <<store, nextid, appToday, dbToday>>

\* async with Session() as db: a session of the factory used without get_db,
\* or kept after its get_db block ended: no transaction has been begun
Session_enter(s) ==
    /\ pc[s] = "idle"
    /\ pc' = [pc EXCEPT ![s] = "in_block"]
    /\ tx' = [tx EXCEPT ![s] = "none"]
    /\ outcome' = [outcome EXCEPT ![s] = "bare"]
    /\ last' = [NoCall EXCEPT !.op = "Session_enter", !.unit = s]
    /\ UNCHANGED <<store, nextid, written, removed, pending, raised, appToday,
                   dbToday>>

\* The session is closed without a commit: whatever it autobegan is rolled back
Session_exit(s) ==
    /\ pc[s] \in {"in_block", "raised"}
    /\ outcome[s] = "bare"
    /\ written' = [written EXCEPT ![s] = NoRows]
    /\ removed' = [removed EXCEPT ![s] = NoRows]
    /\ pending' = [pending EXCEPT ![s] = {}]
    /\ pc' = [pc EXCEPT ![s] = "idle"]
    /\ tx' = [tx EXCEPT ![s] = "none"]
    /\ outcome' = [outcome EXCEPT ![s] = IF pc[s] = "raised" THEN raised[s]
                                         ELSE "closed"]
    /\ raised' = [raised EXCEPT ![s] = NoExc]
    /\ last' = [NoCall EXCEPT !.op = "Session_exit", !.unit = s, !.exc = raised[s]]
    /\ UNCHANGED <<store, nextid, appToday, dbToday>>

\* The caller catches the exception of a call inside the block and goes on
\* with the same session
caller_catches(s) ==
    /\ pc[s] = "raised"
    /\ pc' = [pc EXCEPT ![s] = "in_block"]
    /\ raised' = [raised EXCEPT ![s] = NoExc]
    /\ last' = [NoCall EXCEPT !.op = "caller_catches", !.unit = s]
    /\ UNCHANGED <<store, nextid, tx, written, removed, pending, outcome,
                   appToday, dbToday>>

\* db.execute while the store cannot be reached: OperationalError
ConnectionLost(s) ==
    [Effect(s, OperationalError, None, 1) EXCEPT !.tx = "aborted"]

\* a crud query called while the store cannot be reached
crud_unreachable(s, op) ==
    /\ pc[s] = "in_block"
    /\ Call(s, op, <<>>, exception_decorator(s, ConnectionLost(s)))

(* ------------------------------------------------------------------ Author *)
\* crud.create_author
create_author(s, name, bio) ==
    /\ pc[s] = "in_block"
    /\ LET obj == [name |-> name, bio |-> bio]
       IN /\ ~Waits(s, "author", [id |-> 0, name |-> name])
          /\ Call(s, "create_author", [name |-> name],
                  exception_decorator(s, add_flush_refresh(s, "author", obj)))

\* crud.update_author
update_author(s, author_id, kwargs) ==
    /\ pc[s] = "in_block"
    /\ author_id \notin UNION {LockedBy(o, "author") : o \in Units \ {s}}
    /\ Call(s, "update_author", [id |-> author_id, kwargs |-> kwargs],
            exception_decorator(s, update_returning(s, "author", author_id, kwargs)))

\* crud.delete_author
delete_author(s, author_id) ==
    /\ pc[s] = "in_block"
    /\ author_id \notin UNION {LockedBy(o, "author") : o \in Units \ {s}}
    /\ ~DeleteWaits(s, "author", author_id)
    /\ Call(s, "delete_author", [id |-> author_id],
            exception_decorator(s, delete_where(s, "author", author_id)))

(* -------------------------------------------------------------------- Book *)
\* models.Book(title=..., isbn=..., ...): the isbn validator runs on assignment
Book_init(title, isbn, published_year, author_id) ==
    LET v == check_isbn(isbn)
    IN IF v.exc # NoExc THEN [exc |-> v.exc, val |-> None]
       ELSE [exc |-> NoExc,
             val |-> Some([title |-> title, isbn |-> The(v.val),
                           published_year |-> published_year,
                           author_id |-> author_id])]

\* the body of crud.create_book, with the object added before it is validated
create_book_body_add_first(s, title, isbn, published_year, author_id) ==
    LET b == Book_init(title, isbn, published_year, author_id)
        raw == [title |-> title, isbn |-> isbn, published_year |-> published_year,
                author_id |-> author_id]
    IN IF b.exc # NoExc
       THEN [Effect(s, b.exc, None, 0) EXCEPT !.pending = @ \cup {raw}]
       ELSE add_flush_refresh(s, "book", The(b.val))

\* the body of crud.create_book
create_book_body(s, title, isbn, published_year, author_id) ==
    LET b == Book_init(title, isbn, published_year, author_id)
    IN IF b.exc # NoExc
       THEN Effect(s, b.exc, None, 0)
       ELSE add_flush_refresh(s, "book", The(b.val))

\* crud.create_book
create_book(s, title, isbn, published_year, author_id) ==
    /\ pc[s] = "in_block"
    /\ ~(/\ check_isbn(isbn).exc = NoExc
          /\ Waits(s, "book", [id |-> 0, isbn |-> isbn]))
    /\ Call(s, "create_book",
            [isbn |-> isbn, published_year |-> published_year,
             author_id |-> author_id],
            exception_decorator(s,
                create_book_body(s, title, isbn, published_year, author_id)))

\* crud.update_book
update_book(s, book_id, kwargs) ==
    /\ pc[s] = "in_block"
    /\ book_id \notin UNION {LockedBy(o, "book") : o \in Units \ {s}}
    /\ Call(s, "update_book", [id |-> book_id, kwargs |-> kwargs],
            exception_decorator(s, update_returning(s, "book", book_id, kwargs)))

\* crud.delete_book
delete_book(s, book_id) ==
    /\ pc[s] = "in_block"
    /\ book_id \notin UNION {LockedBy(o, "book") : o \in Units \ {s}}
    /\ ~DeleteWaits(s, "book", book_id)
    /\ Call(s, "delete_book", [id |-> book_id],
            exception_decorator(s, delete_where(s, "book", book_id)))

(* ------------------------------------------------------------------ Reader *)
\* models.Reader(email=..., full_name=..., phone=..., address=...): the email
\* and phone validators run on assignment; is_active is the server's default
Reader_init(email, full_name, phone) ==
    LET e == check_email(email)
        p == check_phone(phone)
    IN IF e.exc # NoExc THEN [exc |-> e.exc, val |-> None]
       ELSE IF p.exc # NoExc THEN [exc |-> p.exc, val |-> None]
       ELSE [exc |-> NoExc,
             val |-> Some([email |-> The(e.val), full_name |-> full_name,
                           phone |-> p.val, is_active |-> TRUE])]

\* the body of crud.create_reader
create_reader_body(s, email, full_name, phone) ==
    LET r == Reader_init(email, full_name, phone)
    IN IF r.exc # NoExc
       THEN Effect(s, r.exc, None, 0)
       ELSE add_flush_refresh(s, "reader", The(r.val))

\* crud.create_reader
create_reader(s, email, full_name, phone) ==
    /\ pc[s] = "in_block"
    /\ ~(/\ Reader_init(email, full_name, phone).exc = NoExc
          /\ Waits(s, "reader", [id |-> 0, email |-> email]))
    /\ Call(s, "create_reader", [email |-> email, phone |-> phone],
            exception_decorator(s, create_reader_body(s, email, full_name, phone)))

\* crud.update_reader
update_reader(s, reader_id, kwargs) ==
    /\ pc[s] = "in_block"
    /\ reader_id \notin UNION {LockedBy(o, "reader") : o \in Units \ {s}}
    /\ Call(s, "update_reader", [id |-> reader_id, kwargs |-> kwargs],
            exception_decorator(s, update_returning(s, "reader", reader_id, kwargs)))

\* crud.delete_reader
delete_reader(s, reader_id) ==
    /\ pc[s] = "in_block"
    /\ reader_id \notin UNION {LockedBy(o, "reader") : o \in Units \ {s}}
    /\ ~DeleteWaits(s, "reader", reader_id)
    /\ Call(s, "delete_reader", [id |-> reader_id],
            exception_decorator(s, delete_where(s, "reader", reader_id)))

(* -------------------------------------------------------------------- Loan *)
\* Loan.status, the in-memory evaluator (date.today() is the application's clock)
status_due_after_today(self) ==
    IF IsNone(self.return_date) /\ The(self.due_date) > appToday THEN "active"
    ELSE IF IsNone(self.return_date) /\ The(self.due_date) < appToday THEN "overdue"
    ELSE "returned"

status(self) ==
    IF IsNone(self.return_date) /\ The(self.due_date) >= appToday THEN "active"
    ELSE IF IsNone(self.return_date) /\ The(self.due_date) < appToday THEN "overdue"
    ELSE "returned"

\* Loan.status.expression, the store-side CASE (current_date is the store's clock)
status_expression(row) ==
    CASE ~IsNone(row.return_date) -> "returned"
      [] IsNone(row.return_date) /\ The(row.due_date) < dbToday -> "overdue"
      [] OTHER -> "active"

\* set_due_date, the before_insert listener: adding a timedelta to a loan_date
\* that is None raises TypeError
set_due_date(target) ==
    IF IsNone(target.due_date)
    THEN IF IsNone(target.loan_date)
         THEN [exc |-> TypeError, val |-> target]
         ELSE [exc |-> NoExc,
               val |-> [target EXCEPT !.due_date = Some(The(target.loan_date) + LoanDays)]]
    ELSE [exc |-> NoExc, val |-> target]

\* The INSERT leaves out a loan_date that is None: the server default
\* func.current_date() fills it
loan_server_defaults(target) ==
    IF IsNone(target.loan_date)
    THEN [target EXCEPT !.loan_date = Some(dbToday)]
    ELSE target

\* the body of crud.create_loan: construct, add, flush (listener, then INSERT),
\* refresh
create_loan_body(s, book_id, reader_id, loan_date, due_date) ==
    LET loan == [book_id |-> book_id, reader_id |-> reader_id,
                 loan_date |-> loan_date, due_date |-> due_date,
                 return_date |-> None]
        hooked == set_due_date(loan)
    IN IF hooked.exc # NoExc
       THEN FlushFailed(s, hooked.exc, 0, nextid)
       ELSE add_flush_refresh(s, "loan", loan_server_defaults(hooked.val))

\* crud.create_loan
create_loan(s, book_id, reader_id, loan_date, due_date) ==
    /\ pc[s] = "in_block"
    /\ ~Waits(s, "loan", [id |-> 0, book_id |-> book_id, return_date |-> None])
    /\ ~InsertWaits(s, "loan", [book_id |-> book_id, reader_id |-> reader_id])
    /\ Call(s, "create_loan",
            [book_id |-> book_id, reader_id |-> reader_id,
             loan_date |-> loan_date, due_date |-> due_date],
            exception_decorator(s,
                create_loan_body(s, book_id, reader_id, loan_date, due_date)))

\* a return_book that clears the return_date of a loan that has one
return_book_reopens(s, loan_id) ==
    /\ pc[s] = "in_block"
    /\ loan_id \notin UNION {LockedBy(o, "loan") : o \in Units \ {s}}
    /\ Call(s, "return_book", [id |-> loan_id],
            exception_decorator(s,
                update_returning(s, "loan", loan_id,
                    [return_date |->
                        IF \E l \in View(s, "loan") :
                               l.id = loan_id /\ ~IsNone(l.return_date)
                        THEN None ELSE Some(appToday)])))

\* crud.return_book: return_date = date.today()
return_book(s, loan_id) ==
    /\ pc[s] = "in_block"
    /\ loan_id \notin UNION {LockedBy(o, "loan") : o \in Units \ {s}}
    /\ Call(s, "return_book", [id |-> loan_id],
            exception_decorator(s,
                update_returning(s, "loan", loan_id,
                                 [return_date |-> Some(appToday)])))

\* crud.delete_loan
delete_loan(s, loan_id) ==
    /\ pc[s] = "in_block"
    /\ loan_id \notin UNION {LockedBy(o, "loan") : o \in Units \ {s}}
    /\ Call(s, "delete_loan", [id |-> loan_id],
            exception_decorator(s, delete_where(s, "loan", loan_id)))

\* select(Loan).where(Loan.status == wanted): the store evaluates the expression
loans_with_status(s, wanted) ==
    Effect(s, NoExc, {l \in View(s, "loan") : status_expression(l) = wanted}, 1)

\* crud.get_active_loans
get_active_loans(s) ==
    /\ pc[s] = "in_block"
    /\ Call(s, "get_active_loans", <<>>,
            exception_decorator(s, loans_with_status(s, "active")))

\* crud.get_overdue_loans
get_overdue_loans(s) ==
    /\ pc[s] = "in_block"
    /\ Call(s, "get_overdue_loans", <<>>,
            exception_decorator(s, loans_with_status(s, "overdue")))

\* the rows of the join of reader and loan on reader.id = loan.reader_id that
\* the store finds overdue, as the number of such rows for each reader
overdue_join(s) ==
    LET owed(r) == {l \in View(s, "loan") :
                        r.id = l.reader_id /\ status_expression(l) = "overdue"}
    IN [r \in {x \in View(s, "reader") : owed(x) # {}} |-> Cardinality(owed(r))]

\* the select of get_debtors without its DISTINCT
debtors_not_distinct(s) ==
    Effect(s, NoExc, overdue_join(s), 1)

\* select(Reader).where(Reader.id == Loan.reader_id,
\*                      Loan.status == 'overdue').distinct()
\* as the number of times each reader is in the result
debtors(s) ==
    Effect(s, NoExc, [r \in DOMAIN overdue_join(s) |-> 1], 1)

\* crud.get_debtors
get_debtors(s) ==
    /\ pc[s] = "in_block"
    /\ Call(s, "get_debtors", <<>>, exception_decorator(s, debtors(s)))

(* ------------------------------------------------------------------ clocks *)
\* Midnight passes on the application's host
tick_app ==
    /\ appToday < MaxDay
    /\ appToday <= dbToday
    /\ appToday' = appToday + 1
    /\ last' = [NoCall EXCEPT !.op = "tick_app"]
    /\ UNCHANGED <<store, nextid, pc, tx, written, removed, pending, raised,
                   outcome, dbToday>>

\* Midnight passes on the store's host
tick_db ==
    /\ dbToday < MaxDay
    /\ dbToday <= appToday
    /\ dbToday' = dbToday + 1
    /\ last' = [NoCall EXCEPT !.op = "tick_db"]
    /\ UNCHANGED <<store, nextid, pc, tx, written, removed, pending, raised,
                   outcome, appToday>>

(* ------------------------------------------------------------------ inputs *)
\* "9783161484100" and "9783161484117", the isbns of main.py
Isbn100 == <<"9", "7", "8", "3", "1", "6", "1", "4", "8", "4", "1", "0", "0">>
Isbn117 == <<"9", "7", "8", "3", "1", "6", "1", "4", "8", "4", "1", "1", "7">>
\* "97831614841" (11 digits), "97831614841X" (12 characters),
\* "978316148410X" (13 characters, one not a digit), 14 digits
Isbn11 == SubSeq(Isbn100, 1, 11)
Isbn12X == Isbn11 \o <<"X">>
Isbn13X == SubSeq(Isbn100, 1, 12) \o <<"X">>
Isbn14 == Isbn100 \o <<"0">>
IsbnInputs == {Isbn100, Isbn117, Isbn11, Isbn12X, Isbn13X, Isbn14}

\* "u@mail.ru", "u@yandex.ru", "u@gmail.com", "u@other.com", "u@mail.ru.x", ""
OtherCom == <<"@", "o", "t", "h", "e", "r", ".", "c", "o", "m">>
EmailInputs == {<<"u">> \o MailRu, <<"u">> \o YandexRu, <<"u">> \o GmailCom,
                <<"u">> \o OtherCom, <<"u">> \o MailRu \o <<".", "x">>, <<>>}

\* Phones: a prefix followed by n digits, for every length around 11 and 12;
\* main.py's "+71234567890" has this shape
PhonePrefixes == {<<>>, <<"+", "7">>, <<"8">>, <<"7">>, <<"+", "8">>}
PhoneInputs ==
    {None} \cup {Some(p \o Rep("1", n)) : p \in PhonePrefixes, n \in {0, 9, 10, 11}}

DayInputs == 0..MaxDay
AuthorIds == 1..MaxAuthorId
BookIds == 1..MaxBookId
ReaderIds == 1..MaxReaderId
LoanIds == 1..MaxLoanId
YearInputs == {MinYear - 1, MinYear, YearOf(MaxDay)}

(* -------------------------------------------------------------------- Init *)
NoUnitRows == [s \in Units |-> NoRows]

InitUnits ==
    /\ pc = [s \in Units |-> "idle"]
    /\ tx = [s \in Units |-> "none"]
    /\ written = NoUnitRows
    /\ removed = NoUnitRows
    /\ pending = [s \in Units |-> {}]
    /\ raised = [s \in Units |-> NoExc]
    /\ outcome = [s \in Units |-> "none"]
    /\ last = NoCall

\* init_db: drop_all, create_all: empty tables, fresh sequences
Init ==
    /\ store = NoRows
    /\ nextid = [t \in Tables |-> 1]
    /\ InitUnits
    /\ appToday = 0
    /\ dbToday = 0

(* -------------------------------------------------------------------- Next *)
\* The bound on a table's sequence: no more rows are created beyond id n
Room(t, n) == nextid[t] <= n

\* The unit of work of get_db around the calls of unit s
UnitOfWork(s) ==
    \/ get_db_enter(s)
    \/ get_db_exit(s)
    \/ get_db_except(s)

\* One unit of work at a time (main.py runs its units one after the other),
\* creating and deleting rows of the four entities
Next ==
    \/ UnitOfWork("u1")
    \/ \E name \in {"A", "B"} :
          Room("author", MaxAuthorId) /\ create_author("u1", name, None)
    \/ \E id \in AuthorIds : delete_author("u1", id)
    \/ \E isbn \in {Isbn100, Isbn12X}, a \in AuthorIds :
          Room("book", MaxBookId) /\ create_book("u1", "T", isbn, MinYear, a)
    \/ \E id \in BookIds : delete_book("u1", id)
    \/ \E email \in {<<"u">> \o MailRu, <<"u">> \o OtherCom},
          phone \in {None, Some(<<"7">>)} :
          Room("reader", MaxReaderId) /\ create_reader("u1", email, "N", phone)
    \/ \E id \in ReaderIds : delete_reader("u1", id)
    \/ \E b \in BookIds, r \in ReaderIds :
          Room("loan", MaxLoanId) /\ create_loan("u1", b, r, None, Some(0))
    \/ \E id \in LoanIds : delete_loan("u1", id)

Spec == Init /\ [][Next]_vars

(* ----------------------------------------------------------- Book writes *)
\* The fields update_book is given: an isbn, or a published_year
BookKwargs ==
    {[isbn |-> i] : i \in IsbnInputs} \cup {[published_year |-> y] : y \in YearInputs}

\* Units of work that create and update books under one author, while the
\* store's clock passes from one year into the next
NextBooks ==
    \/ UnitOfWork("u1")
    \/ Room("author", MaxAuthorId) /\ create_author("u1", "A", None)
    \/ \E isbn \in IsbnInputs, y \in YearInputs, a \in AuthorIds :
          Room("book", MaxBookId) /\ create_book("u1", "T", isbn, y, a)
    \/ \E id \in BookIds, kw \in BookKwargs : update_book("u1", id, kw)
    \/ tick_db

SpecBooks == Init /\ [][NextBooks]_vars

(* --------------------------------------------------------- Reader writes *)
\* The fields update_reader is given: an email, or is_active
ReaderKwargs ==
    {[email |-> e] : e \in EmailInputs} \cup {[is_active |-> FALSE]}

\* Units of work that create and update readers
NextReaders ==
    \/ UnitOfWork("u1")
    \/ \E email \in EmailInputs, phone \in {None, Some(<<"7">>)} :
          Room("reader", MaxReaderId) /\ create_reader("u1", email, "N", phone)
    \/ \E id \in ReaderIds, kw \in ReaderKwargs : update_reader("u1", id, kw)

SpecReaders == Init /\ [][NextReaders]_vars

\* Units of work that register readers with every kind of phone
NextPhones ==
    \/ UnitOfWork("u1")
    \/ \E email \in {<<"u">> \o MailRu, <<"u">> \o GmailCom, <<"u">> \o OtherCom},
          phone \in PhoneInputs :
          Room("reader", MaxRows) /\ create_reader("u1", email, "N", phone)

SpecPhones == Init /\ [][NextPhones]_vars

(* ------------------------------------------------------------------ Loans *)
\* The library after test_loans' first three calls were committed: an author,
\* a book (a second one beside it) and a reader, and no loan yet
Library ==
    [author |-> {[id |-> 1, name |-> "A", bio |-> None]},
     book |-> {[id |-> 1, title |-> "T", isbn |-> Isbn100,
                published_year |-> MinYear, author_id |-> 1],
               [id |-> 2, title |-> "T", isbn |-> Isbn117,
                published_year |-> MinYear, author_id |-> 1]},
     reader |-> {[id |-> 1, email |-> <<"u">> \o MailRu, full_name |-> "N",
                  phone |-> None, is_active |-> TRUE]},
     loan |-> {}]

InitLoans ==
    /\ store = Library
    /\ nextid = [t \in Tables |-> IF t = "loan" THEN 1
                                  ELSE Cardinality(Library[t]) + 1]
    /\ InitUnits
    /\ appToday = 0
    /\ dbToday = 0

\* create_loan's dates: a due_date alone (as main.py calls it), a loan_date
\* alone, or neither
LoanDates ==
    {<<None, Some(d)>> : d \in DayInputs} \cup {<<Some(0), None>>, <<None, None>>}

\* Units of work that lend and take back the library's books while the two
\* clocks pass midnight
NextLoans ==
    \/ UnitOfWork("u1")
    \/ \E b \in Ids(Library.book), d \in LoanDates :
          Room("loan", MaxRows) /\ create_loan("u1", b, 1, d[1], d[2])
    \/ \E id \in 1..MaxRows : return_book("u1", id)
    \/ \E id \in 1..MaxRows : delete_loan("u1", id)
    \/ get_active_loans("u1")
    \/ get_overdue_loans("u1")
    \/ tick_app
    \/ tick_db

SpecLoans == InitLoans /\ [][NextLoans]_vars

\* Units of work that lend book 1 with a due date and take it back while the
\* application's clock passes midnight: every combination of return_date and
\* due_date against today; a loan for a reader that does not exist fails and
\* ends the unit with a rollback
NextStatus ==
    \/ UnitOfWork("u1")
    \/ \E due \in DayInputs, r \in ReaderIds \cup {MaxReaderId + 1} :
          Room("loan", MaxRows) /\ create_loan("u1", 1, r, Some(0), Some(due))
    \/ \E id \in 1..MaxRows : return_book("u1", id)
    \/ tick_app

SpecStatus == InitLoans /\ [][NextStatus]_vars

\* Two units of work, each lending book 1 once with a due date (as main.py
\* calls create_loan), whose get_db blocks overlap: neither commits before the
\* other has begun
NextRace ==
    \E s \in Units :
        \/ outcome[s] = "none" /\ get_db_enter(s)
        \/ \E ld \in {None} \cup {Some(d) : d \in DayInputs}, due \in DayInputs :
              /\ written[s]["loan"] = {}
              /\ create_loan(s, 1, 1, ld, Some(due))
        \/ /\ written[s]["loan"] # {}
           /\ \A o \in Units : outcome[o] # "none"
           /\ get_db_exit(s)

SpecRace == InitLoans /\ [][NextRace]_vars

(* ---------------------------------------------------------------- Updates *)
\* The fields the update operations are given: a free value, a value another
\* row already holds, a value the store's constraints refuse (main.py updates
\* an author's bio)
AuthorUpdates == {[name |-> "C"], [bio |-> Some("b")]}
BookUpdates == {[isbn |-> Isbn117], [isbn |-> Isbn11], [published_year |-> MinYear - 1]}
ReaderUpdates == {[is_active |-> FALSE]}

\* Units of work that update the library's author, books and reader, by ids
\* that exist and by ids that do not
NextUpdates ==
    \/ UnitOfWork("u1")
    \/ \E id \in 1..(MaxRows + 1), kw \in AuthorUpdates : update_author("u1", id, kw)
    \/ \E id \in 1..(MaxRows + 1), kw \in BookUpdates : update_book("u1", id, kw)
    \/ \E id \in 1..(MaxRows + 1), kw \in ReaderUpdates : update_reader("u1", id, kw)

SpecUpdates == InitLoans /\ [][NextUpdates]_vars

(* ----------------------------------------------------- concurrent units *)
\* Two units of work whose get_db blocks overlap freely, lending book 1 (to the
\* reader, or to a reader that does not exist, which fails), taking loans back
\* and deleting them, and deleting book 1 (which fails while a loan refers to it)
NextUnits ==
    \E s \in Units :
        \/ UnitOfWork(s)
        \/ \E r \in ReaderIds \cup {MaxReaderId + 1} :
              Room("loan", MaxRows) /\ create_loan(s, 1, r, None, Some(0))
        \/ \E id \in 1..MaxRows : return_book(s, id)
        \/ \E id \in 1..MaxRows : delete_loan(s, id)
        \/ delete_book(s, 1)

SpecUnits == InitLoans /\ [][NextUnits]_vars

(* --------------------------------------------------------------- Sessions *)
\* One caller using sessions inside get_db blocks and outside them, with calls
\* that fail in the validators, in the listener, in a flush, in an executed
\* statement and on the connection, and going on after a failure it caught
NextSessions ==
    \/ UnitOfWork("u1")
    \/ Session_enter("u1")
    \/ Session_exit("u1")
    \/ caller_catches("u1")
    \/ \E name \in {"A", "B"} :
          Room("author", MaxRows) /\ create_author("u1", name, None)
    \/ create_book("u1", "T", Isbn12X, MinYear, 1)
    \/ update_book("u1", 1, [isbn |-> Isbn14])
    \/ \E due \in {None, Some(0)} :
          Room("loan", MaxRows) /\ create_loan("u1", 1, 1, None, due)
    \/ delete_book("u1", 1)
    \/ get_active_loans("u1")
    \/ crud_unreachable("u1", "get_overdue_loans")

SpecSessions == InitLoans /\ [][NextSessions]_vars

(* ---------------------------------------------------------------- Returns *)
\* The library with a second reader registered
InitReturns ==
    /\ store = [Library EXCEPT !.reader = @ \cup
                    {[id |-> 2, email |-> <<"u">> \o YandexRu, full_name |-> "N",
                      phone |-> None, is_active |-> TRUE]}]
    /\ nextid = [t \in Tables |-> IF t = "loan" THEN 1
                                  ELSE Cardinality(Library[t]) + 2]
    /\ InitUnits
    /\ appToday = 0
    /\ dbToday = 0

\* Units of work that lend book 1 to either reader, or to one that does not
\* exist, with due_date day 0 (one loan more than the sequence bound, so that
\* a reader can owe two), take loans back and ask for the overdue loans and
\* the debtors, while the store's clock passes midnight
NextDebtors ==
    \/ UnitOfWork("u1")
    \/ \E r \in Ids(store["reader"]) \cup {nextid["reader"]} :
          Room("loan", MaxLoanId + 1) /\ create_loan("u1", 1, r, Some(0), Some(0))
    \/ \E id \in 1..(MaxLoanId + 2) : return_book("u1", id)
    \/ get_overdue_loans("u1")
    \/ get_debtors("u1")
    \/ tick_db

SpecDebtors == InitReturns /\ [][NextDebtors]_vars

\* Units of work that lend book 1 to the reader, or to one that does not
\* exist, with due_date day 0, take loans back, once and again, and ask for
\* the active and overdue loans and the debtors, while the two clocks pass
\* midnight
NextReturns ==
    \/ UnitOfWork("u1")
    \/ \E r \in Ids(store["reader"]) \cup {nextid["reader"]} :
          Room("loan", MaxLoanId + 1) /\ create_loan("u1", 1, r, Some(0), Some(0))
    \/ \E id \in 1..(MaxLoanId + 2) : return_book("u1", id)
    \/ get_active_loans("u1")
    \/ get_overdue_loans("u1")
    \/ get_debtors("u1")
    \/ tick_app
    \/ tick_db

SpecReturns == InitLoans /\ [][NextReturns]_vars

(* ------------------------------------------------------------------ claims *)
\* What each claim calls a well-formed value
IsbnOk(v) == Len(v) = 13 /\ \A i \in 1..Len(v) : v[i] \in Digits
EmailOk(v) == \E sfx \in {MailRu, YandexRu, GmailCom} : contains(v, sfx)
PhoneAbsent(p) == p = None \/ p = Some(<<>>)
PhoneOk(p) ==
    \/ PhoneAbsent(p)
    \/ /\ Len(The(p)) \in {11, 12}
       /\ \/ SubSeq(The(p), 1, 2) = <<"+", "7">>
          \/ SubSeq(The(p), 1, 1) = <<"8">>

\* The unit's state and the store, which a call that fails before the store
\* leaves alone
Untouched ==
    /\ store' = store
    /\ written' = written
    /\ removed' = removed
    /\ pending' = pending
    /\ nextid' = nextid

\* C9: a create_book with a bad isbn, or a create_reader with a bad email or
\* phone, raises ValueError having sent no statement to the store, and leaves
\* the store's rows, the unit's uncommitted rows and the session's pending set
\* as they were.
C9_ValidationBeforeStore ==
    [][/\ (last'.op = "create_book" /\ ~IsbnOk(last'.args.isbn))
            => (last'.exc = ValueError /\ last'.stmts = 0 /\ Untouched)
       /\ (last'.op = "create_reader"
             /\ (~EmailOk(last'.args.email) \/ ~PhoneOk(last'.args.phone)))
            => (last'.exc = ValueError /\ last'.stmts = 0 /\ Untouched)]_vars

\* C9 witness: a create_book failed on its isbn in a unit that had already
\* written an author
C9_Witness ==
    /\ last.op = "create_book"
    /\ last.exc = ValueError
    /\ written["u1"]["author"] # {}

DeleteTable(op) ==
    CASE op = "delete_author" -> "author"
      [] op = "delete_book" -> "book"
      [] op = "delete_reader" -> "reader"
      [] op = "delete_loan" -> "loan"
DeleteOps == {"delete_author", "delete_book", "delete_reader", "delete_loan"}
AnyId == 1..(MaxAuthorId + MaxBookId + MaxReaderId + MaxLoanId)

\* the call in last' left every table as the unit saw it
TablesUnchanged(s) ==
    /\ store' = store
    /\ \A t \in Tables : View(s, t)' = View(s, t)

\* the call in last' removed row id of table t and nothing else
RemovedExactly(s, t, id) ==
    /\ store' = store
    /\ View(s, t)' = {r \in View(s, t) : r.id # id}
    /\ \A o \in Tables \ {t} : View(s, o)' = View(s, o)

OpenLoans(rows, b) == {l \in rows : l.book_id = b /\ IsNone(l.return_date)}

\* C1 as stated: after every step each book has at most one loan with
\* return_date null, among the committed rows and among the rows a unit sees;
\* and a create_loan for a book that already has an unreturned loan raises
\* IntegrityError and adds no row (stated of the calls whose INSERT reaches
\* the index: those given a due_date or a loan_date).
C1_Original ==
    [][/\ \A b \in Ids(Library.book) :
            /\ Cardinality(OpenLoans(store'["loan"], b)) <= 1
            /\ \A s \in Units : Cardinality(OpenLoans(View(s, "loan")', b)) <= 1
       /\ \A s \in Units, b \in Ids(Library.book) :
            (/\ last'.op = "create_loan" /\ last'.unit = s
             /\ last'.args.book_id = b
             /\ ~(IsNone(last'.args.due_date) /\ IsNone(last'.args.loan_date))
             /\ OpenLoans(View(s, "loan"), b) # {})
                => /\ last'.exc = IntegrityError
                   /\ store' = store
                   /\ Ids(View(s, "loan")') \subseteq Ids(View(s, "loan"))]_vars

\* C2 as stated: once both units that lent the same book concurrently have
\* left their blocks, exactly one has committed and the other ended with
\* IntegrityError.
C2_Original ==
    (\A s \in Units : outcome[s] \notin {"none", "open"})
        => \E s \in Units :
              /\ outcome[s] = "committed"
              /\ \A o \in Units \ {s} : outcome[o] = IntegrityError

\* returned > overdue > active, against the application's today
Precedence(l) ==
    IF ~IsNone(l.return_date) THEN "returned"
    ELSE IF The(l.due_date) < appToday THEN "overdue"
    ELSE "active"

AllLoans == store["loan"] \cup UNION {View(s, "loan") : s \in Units}

\* C3: the in-memory status of every loan is "returned" when return_date is
\* set, whatever due_date is; otherwise "overdue" when due_date < today;
\* otherwise "active", due_date = today included.
C3_StatusPrecedence == \A l \in AllLoans : status(l) = Precedence(l)

\* C3 witness: an open loan due today, a returned loan that was due before
\* today and an open loan that was due before today, side by side
C3_Witness ==
    /\ \E l \in AllLoans : IsNone(l.return_date) /\ The(l.due_date) = appToday
    /\ \E l \in AllLoans : ~IsNone(l.return_date) /\ The(l.due_date) < appToday
    /\ \E l \in AllLoans : IsNone(l.return_date) /\ The(l.due_date) < appToday

\* C4 as stated: for every stored loan the in-memory status and the store's
\* status expression agree, and get_active_loans and get_overdue_loans return
\* exactly the loans whose in-memory status is "active" and "overdue".
C4_Original ==
    /\ \A l \in AllLoans : status(l) = status_expression(l)
    /\ last.op = "get_active_loans"
         => last.ret = {l \in View(last.unit, "loan") : status(l) = "active"}
    /\ last.op = "get_overdue_loans"
         => last.ret = {l \in View(last.unit, "loan") : status(l) = "overdue"}

\* C5 as stated: a create_loan without due_date for an existing book and
\* reader succeeds, with or without loan_date, and the loan it persists has
\* due_date = loan_date + 14 days.
C5_Original ==
    (/\ last.op = "create_loan"
     /\ IsNone(last.args.due_date)
     /\ last.args.book_id \in Ids(store["book"])
     /\ last.args.reader_id \in Ids(store["reader"]))
        => /\ last.exc = NoExc
           /\ The(last.ret) \in View(last.unit, "loan")
           /\ The(last.ret).due_date = Some(The(The(last.ret).loan_date) + 14)

\* C6 as stated: every stored book's isbn is 13 digits, and a create_book or
\* update_book given another isbn fails.
C6_Original ==
    /\ \A b \in store["book"] : IsbnOk(b.isbn)
    /\ (last.op = "create_book" /\ ~IsbnOk(last.args.isbn)) => last.exc # NoExc
    /\ (/\ last.op = "update_book"
        /\ "isbn" \in DOMAIN last.args.kwargs
        /\ ~IsbnOk(last.args.kwargs.isbn)) => last.exc # NoExc

\* C7 as stated: every stored reader's email contains an accepted suffix, and
\* a create_reader or update_reader given another email fails.
C7_Original ==
    /\ \A r \in store["reader"] : EmailOk(r.email)
    /\ (last.op = "create_reader" /\ ~EmailOk(last.args.email)) => last.exc # NoExc
    /\ (/\ last.op = "update_reader"
        /\ "email" \in DOMAIN last.args.kwargs
        /\ ~EmailOk(last.args.kwargs.email)) => last.exc # NoExc

\* C8: create_reader with a phone that is neither absent or empty nor a
\* string of length 11 or 12 starting with "+7" or "8" raises ValueError and
\* persists nothing; a phone of the accepted shape never makes it raise
\* ValueError when the email is accepted; and the reader it persists has phone
\* null for an absent or empty phone and the phone as given otherwise.
C8_PhoneRule ==
    [][last'.op = "create_reader" =>
        /\ ~PhoneOk(last'.args.phone)
             => (last'.exc = ValueError /\ last'.stmts = 0 /\ Untouched)
        /\ (PhoneOk(last'.args.phone) /\ EmailOk(last'.args.email))
             => last'.exc # ValueError
        /\ last'.exc = NoExc
             => /\ The(last'.ret) \in written'[last'.unit]["reader"]
                /\ The(last'.ret).phone =
                       IF PhoneAbsent(last'.args.phone) THEN None
                       ELSE last'.args.phone]_vars

\* C8 witness: a reader was persisted with a 12-character "+7" phone, another
\* with an empty phone stored as null
C8_Witness ==
    /\ \E r \in store["reader"] : r.phone = Some(<<"+", "7">> \o Rep("1", 10))
    /\ last.op = "create_reader"
    /\ last.args.phone = Some(<<>>)
    /\ last.exc = NoExc
    /\ The(last.ret).phone = None

UpdateTable(op) ==
    CASE op = "update_author" -> "author"
      [] op = "update_book" -> "book"
      [] op = "update_reader" -> "reader"
UpdateOps == {"update_author", "update_book", "update_reader"}

\* row id of table t as unit s sees it
RowOf(s, t, id) == The({r \in View(s, t) : r.id = id})

\* old with the fields of kwargs set to the values of kwargs
WithFields(old, kwargs) ==
    [f \in DOMAIN old |-> IF f \in DOMAIN kwargs THEN kwargs[f] ELSE old[f]]

\* the call in last' replaced row id of table t by new and changed nothing else
ReplacedExactly(s, t, id, new) ==
    /\ store' = store
    /\ View(s, t)' = {r \in View(s, t) : r.id # id} \cup {new}
    /\ \A o \in Tables \ {t} : View(s, o)' = View(s, o)

\* C11 as stated: an update of an id that matches no row returns None and
\* changes no row; an update of an existing id returns the updated row, in
\* which exactly the supplied fields have the supplied values, and every other
\* field and every other row is unchanged.
C11_Original ==
    [][\A s \in Units, op \in UpdateOps, id \in AnyId :
        (last'.op = op /\ last'.unit = s /\ last'.args.id = id) =>
            IF id \notin Ids(View(s, UpdateTable(op)))
            THEN last'.exc = NoExc /\ last'.ret = None /\ TablesUnchanged(s)
            ELSE LET new == WithFields(RowOf(s, UpdateTable(op), id),
                                       last'.args.kwargs)
                 IN /\ last'.exc = NoExc /\ last'.ret = Some(new)
                    /\ ReplacedExactly(s, UpdateTable(op), id, new)]_vars

\* C11 amended: an update of an id that matches no row returns None and
\* changes no row; an update of an existing id with values the store's
\* constraints accept returns the updated row, in which exactly the supplied
\* fields have the supplied values, and every other field and every other row
\* is unchanged; an update of an existing id with values a constraint of the
\* store refuses (a unique column another row holds, the published_year
\* range, the column's length) raises the store's error and changes no row.
C11_UpdateOutcome ==
    [][\A s \in Units, op \in UpdateOps, id \in AnyId :
        (last'.op = op /\ last'.unit = s /\ last'.args.id = id) =>
            IF id \notin Ids(View(s, UpdateTable(op)))
            THEN last'.exc = NoExc /\ last'.ret = None /\ TablesUnchanged(s)
            ELSE LET new == WithFields(RowOf(s, UpdateTable(op), id),
                                       last'.args.kwargs)
                 IN IF StoreVerdict(s, UpdateTable(op), new) = NoExc
                    THEN /\ last'.exc = NoExc /\ last'.ret = Some(new)
                         /\ ReplacedExactly(s, UpdateTable(op), id, new)
                    ELSE /\ last'.exc \in {IntegrityError, DataError}
                         /\ TablesUnchanged(s)]_vars

\* C11 witness: an update_book has given book 1 a new isbn and left its
\* other fields and book 2 alone, after the author's new name was committed
C11_Witness ==
    /\ last.op = "update_book"
    /\ last.args.id = 1
    /\ last.exc = NoExc
    /\ The(last.ret).isbn = Isbn11
    /\ The(last.ret).published_year = MinYear
    /\ \E a \in store["author"] : a.name = "C"
    /\ \E b \in View(last.unit, "book") : b.id = 2 /\ b.isbn = Isbn117

\* C12: when a unit's block exits normally every row it wrote is in the store,
\* every row it deleted is gone from it and the rows it did not touch stay;
\* when a call inside the block has raised, the block can only end by the
\* rollback, which leaves the store as it was, drops every write of the unit
\* and hands the same exception to the caller; and no step of a unit other
\* than its commit changes what any other unit reads.
C12_UnitOfWork ==
    [][\A s \in Units :
        /\ (last'.op = "get_db_exit" /\ last'.unit = s) =>
              /\ pc[s] = "in_block"
              /\ outcome'[s] = "committed"
              /\ \A t \in Tables :
                    /\ written[s][t] \subseteq store'[t]
                    /\ removed[s][t] \cap Ids(store'[t]) = {}
                    /\ {r \in store[t] : r.id \notin LockedBy(s, t)} \subseteq store'[t]
                    /\ Ids(store'[t]) \subseteq Ids(store[t]) \cup Ids(written[s][t])
        /\ (pc[s] = "raised" /\ last'.unit = s) => last'.op = "get_db_except"
        /\ (last'.op = "get_db_except" /\ last'.unit = s) =>
              /\ raised[s] # NoExc
              /\ last'.exc = raised[s]
              /\ outcome'[s] = raised[s]
              /\ store' = store
              /\ \A t \in Tables : View(s, t)' = store[t]
        /\ (last'.unit # s /\ last'.op # "get_db_exit") =>
              \A t \in Tables : View(s, t)' = View(s, t)]_vars

\* C12 witness: unit u1's block has ended on the IntegrityError of a
\* delete_book; the loan it had created before is not in the store, the loan
\* committed earlier is, still open, and unit u2 is inside its own block
C12_Witness ==
    /\ last.op = "get_db_except"
    /\ last.unit = "u1"
    /\ last.exc = IntegrityError
    /\ outcome["u1"] = IntegrityError
    /\ pc["u2"] = "in_block"
    /\ \E l \in store["loan"] : l.id = 1 /\ IsNone(l.return_date)
    /\ nextid["loan"] > 2
    /\ 2 \notin Ids(store["loan"])
    /\ Ids(store["book"]) = {1, 2}

CrudOps ==
    {"create_author", "create_book", "update_book", "create_loan", "delete_book",
     "get_active_loans", "get_overdue_loans"}

\* C13 as stated: a crud operation called with a session that has no live
\* transaction (none was begun, or the one it had was committed or rolled
\* back) raises RuntimeError and sends no statement to the store.
C13_Original ==
    [][\A s \in Units :
        (last'.op \in CrudOps /\ last'.unit = s /\ tx[s] \in {"none", "inactive"})
            => (last'.exc = RuntimeError /\ last'.stmts = 0)]_vars

\* C14: whatever the wrapped operation raises (IntegrityError,
\* OperationalError, another store error, any other exception) reaches the
\* caller as that same exception, never as another kind and never as a normal
\* result; a call that returns normally is one whose operation raised nothing;
\* and a call that fails has run the operation at most once (one statement,
\* one id of a sequence at most).
C14_NoSwallow ==
    [][last'.op \in CrudOps =>
        /\ last'.inner \notin {NoExc, "not run"}
              => (last'.exc = last'.inner /\ pc'[last'.unit] = "raised")
        /\ last'.exc = NoExc => last'.inner = NoExc
        /\ last'.inner = "not run" => (last'.exc = RuntimeError /\ last'.stmts = 0)
        /\ last'.exc # NoExc
              => /\ last'.stmts <= 1
                 /\ \A t \in Tables : nextid'[t] <= nextid[t] + 1]_vars

\* C14 witness: a query has failed on the connection with OperationalError in
\* a unit that had caught the IntegrityError of an earlier call
C14_Witness ==
    /\ last.op = "get_overdue_loans"
    /\ last.exc = OperationalError
    /\ pc[last.unit] = "raised"
    /\ nextid["author"] > 2
    /\ Cardinality(View(last.unit, "author")) = 1

\* the loans unit s sees that are open and were due before day d
OpenDueBefore(s, d) ==
    {l \in View(s, "loan") : IsNone(l.return_date) /\ The(l.due_date) < d}

\* C15 as stated, today being the date the application reads and passes to
\* create_loan and return_book: get_overdue_loans returns every open loan due
\* before today and get_debtors the reader of each; return_book of a loan
\* gives it today as return_date and the status "returned", and
\* get_overdue_loans returns no loan that was taken back; return_book of an
\* id that matches no loan returns None and changes nothing.
C15_Original ==
    [][\A s \in Units :
        /\ (last'.op = "get_overdue_loans" /\ last'.unit = s)
              => /\ OpenDueBefore(s, appToday) \subseteq last'.ret
                 /\ \A l \in last'.ret : IsNone(l.return_date)
        /\ (last'.op = "get_debtors" /\ last'.unit = s)
              => {l.reader_id : l \in OpenDueBefore(s, appToday)}
                     \subseteq Ids(DOMAIN last'.ret)
        /\ (last'.op = "return_book" /\ last'.unit = s)
              => IF last'.args.id \in Ids(View(s, "loan"))
                 THEN /\ last'.exc = NoExc
                      /\ The(last'.ret).return_date = Some(appToday)
                      /\ status(The(last'.ret)) = "returned"
                      /\ The(last'.ret) \in View(s, "loan")'
                 ELSE /\ last'.exc = NoExc /\ last'.ret = None
                      /\ TablesUnchanged(s)]_vars

\* C16: get_debtors returns exactly the readers with at least one loan that
\* has return_date null and due_date before the store's current_date, each of
\* them once, and no other reader.
C16_Debtors ==
    [][\A s \in Units :
        (last'.op = "get_debtors" /\ last'.unit = s) =>
            /\ last'.exc = NoExc
            /\ DOMAIN last'.ret =
                  {r \in View(s, "reader") :
                      \E l \in OpenDueBefore(s, dbToday) : l.reader_id = r.id}
            /\ \A r \in DOMAIN last'.ret : last'.ret[r] = 1]_vars

\* C16 witness: get_debtors has returned reader 1 once and nobody else, when
\* reader 1 had two overdue loans and reader 2 none
C16_Witness ==
    /\ last.op = "get_debtors"
    /\ Ids(DOMAIN last.ret) = {1}
    /\ Cardinality({l \in OpenDueBefore(last.unit, dbToday) : l.reader_id = 1}) = 2
    /\ \E r \in View(last.unit, "reader") : r.id = 2

LoanCalls ==
    {"create_loan", "return_book", "delete_loan", "get_active_loans",
     "get_overdue_loans", "get_debtors"}

\* C18: a loan with a return_date has the status "returned" in memory and in
\* the store; no step takes the return_date of a committed loan away, and no
\* crud call that succeeds takes away that of a loan the calling unit sees, a
\* repeated return_book included (only the rollback of a unit undoes the
\* return_book that unit had not committed); get_active_loans and
\* get_overdue_loans return only loans without a return_date.
C18_ReturnedStays ==
    /\ [](\A l \in AllLoans :
            ~IsNone(l.return_date)
                => (status(l) = "returned" /\ status_expression(l) = "returned"))
    /\ [][/\ \A l \in store["loan"], n \in store'["loan"] :
                (l.id = n.id /\ ~IsNone(l.return_date)) => ~IsNone(n.return_date)
          /\ \A s \in Units :
                (last'.op \in LoanCalls /\ last'.unit = s /\ last'.exc = NoExc) =>
                    \A l \in View(s, "loan"), n \in View(s, "loan")' :
                        (l.id = n.id /\ ~IsNone(l.return_date))
                            => ~IsNone(n.return_date)
          /\ last'.op \in {"get_active_loans", "get_overdue_loans"}
                => \A l \in last'.ret : IsNone(l.return_date)]_vars

\* C18 witness: a loan committed with return_date day 0 was taken back again
\* on day 1 and is still "returned"
C18_Witness ==
    /\ last.op = "return_book"
    /\ last.exc = NoExc
    /\ last.ret # None
    /\ The(last.ret).return_date = Some(1)
    /\ status(The(last.ret)) = "returned"
    /\ \E l \in store["loan"] :
          l.id = last.args.id /\ l.return_date = Some(0)

\* the range the store's check constraint allows on the store's current date
YearInRange(y) == MinYear <= y /\ y <= YearOf(dbToday)

AllBooks == store["book"] \cup UNION {View(s, "book") : s \in Units}

\* C17 as stated: every stored book has 1000 <= published_year <= current
\* year, and every create_book or update_book given a year outside that range
\* raises IntegrityError and leaves the stored books unchanged.
C17_Original ==
    /\ [](\A b \in AllBooks : YearInRange(b.published_year))
    /\ [][/\ (last'.op = "create_book"
                /\ ~YearInRange(last'.args.published_year))
               => (last'.exc = IntegrityError /\ store' = store)
          /\ (/\ last'.op = "update_book"
              /\ "published_year" \in DOMAIN last'.args.kwargs
              /\ ~YearInRange(last'.args.kwargs.published_year))
               => (last'.exc = IntegrityError /\ store' = store)]_vars

\* C17 amended: every stored book has 1000 <= published_year <= current year;
\* a create_book whose isbn passes its validator, or an update_book of an
\* existing book, given a year outside that range raises IntegrityError and
\* leaves the stored books unchanged; a create_book with a malformed isbn
\* raises ValueError whatever the year, and an update_book of an id that
\* matches no book returns None whatever the year.
C17_YearRange ==
    /\ [](\A b \in AllBooks : YearInRange(b.published_year))
    /\ [][\A s \in Units :
            /\ (/\ last'.op = "create_book" /\ last'.unit = s
                /\ ~YearInRange(last'.args.published_year))
                 => /\ store' = store
                    /\ last'.exc = IF IsbnOk(last'.args.isbn) THEN IntegrityError
                                   ELSE ValueError
            /\ (/\ last'.op = "update_book" /\ last'.unit = s
                /\ "published_year" \in DOMAIN last'.args.kwargs
                /\ ~YearInRange(last'.args.kwargs.published_year))
                 => /\ store' = store
                    /\ IF last'.args.id \in Ids(View(s, "book"))
                       THEN last'.exc = IntegrityError /\ TablesUnchanged(s)
                       ELSE last'.exc = NoExc /\ last'.ret = None]_vars

\* C17 witness: an update_book giving a committed book next year's number has
\* raised IntegrityError
C17_Witness ==
    /\ last.op = "update_book"
    /\ "published_year" \in DOMAIN last.args.kwargs
    /\ last.args.kwargs.published_year = YearOf(dbToday) + 1
    /\ last.exc = IntegrityError
    /\ \E b \in store["book"] : b.id = last.args.id /\ b.published_year = MinYear

====
